---- MODULE Spec2Model ----
(***************************************************************************)
(* A model of ci-matrix.py: the expansion of a target configuration and a  *)
(* runner registry into CI matrix entries, their filtering by labels and   *)
(* their sharding.                                                          *)
(*                                                                         *)
(* Python values are modelled as follows.  A str is a TLA+ string (a       *)
(* sequence of characters: Len, SubSeq and \o act on it).  A dict with     *)
(* fixed keys is a function on strings (a record); an insertion-ordered    *)
(* mapping that the program iterates (the target configuration, the runner *)
(* registry) is a sequence of [key, value] items in iteration order.  A    *)
(* list is a sequence, a set a set, Optional[str] is None or <<s>>.        *)
(***************************************************************************)
EXTENDS Integers, Sequences, FiniteSets, TLC

VARIABLES
    pc,             \* position of main(): the statement it executes next
    args,           \* the argparse.Namespace of parse_args()
    config,         \* yaml.safe_load of ci-targets.yaml
    runners,        \* yaml.safe_load of ci-runners.yaml, then the free subset
    labels,         \* main's `labels`: the result of parse_labels
    pi,             \* generate_matrix_entries: index of the platform iterated
    ti,             \* generate_matrix_entries: index of the target iterated
    matrix_entries, \* generate_matrix_entries: the list the expansion appends to
    entries,        \* main's `entries`: what generate_matrix_entries returned
    shard,          \* main: the loop variable of `for shard in range(max_shards)`
    matrix,         \* main's `matrix`
    stdout,         \* what main printed: None or <<matrix>>
    stderr,         \* the kinds of message written to standard error
    exit_code       \* the exit status of the process, None while it runs

vars == <<pc, args, config, runners, labels, pi, ti, matrix_entries, entries,
          shard, matrix, stdout, stderr, exit_code>>

None == <<>>
Some(v) == <<v>>

(***************************************************************************)
(* Program constants.                                                      *)
(***************************************************************************)
CI_EXTRA_SKIP_LABELS == {"documentation"}
CI_MATRIX_SIZE_LIMIT == 256

(***************************************************************************)
(* Python str methods.                                                     *)
(***************************************************************************)
WHITESPACE == {" ", "\t", "\n"}

CharAt(s, i) == SubSeq(s, i, i)

\* s.find(c, i): the first index >= i holding c, 0 when there is none
RECURSIVE str_find(_, _, _)
str_find(s, c, i) ==
    IF i > Len(s) THEN 0
    ELSE IF CharAt(s, i) = c THEN i
    ELSE str_find(s, c, i + 1)

\* c in s
str_contains(s, c) == str_find(s, c, 1) # 0

\* s.split(sep): a non-empty list, <<"">> for the empty string
RECURSIVE str_split(_, _)
str_split(s, sep) ==
    LET k == str_find(s, sep, 1)
    IN  IF k = 0 THEN <<s>>
        ELSE <<SubSeq(s, 1, k - 1)>> \o str_split(SubSeq(s, k + 1, Len(s)), sep)

\* s.split(sep, 1) of a string that contains sep: the parts around the first sep
str_split1(s, sep) ==
    LET k == str_find(s, sep, 1)
    IN  <<SubSeq(s, 1, k - 1), SubSeq(s, k + 1, Len(s))>>

RECURSIVE str_lstrip(_)
str_lstrip(s) ==
    IF Len(s) > 0 /\ CharAt(s, 1) \in WHITESPACE
    THEN str_lstrip(SubSeq(s, 2, Len(s)))
    ELSE s

RECURSIVE str_rstrip(_)
str_rstrip(s) ==
    IF Len(s) > 0 /\ CharAt(s, Len(s)) \in WHITESPACE
    THEN str_rstrip(SubSeq(s, 1, Len(s) - 1))
    ELSE s

str_strip(s) == str_rstrip(str_lstrip(s))

UPPER == "ABCDEFGHIJKLMNOPQRSTUVWXYZ"
LOWER == "abcdefghijklmnopqrstuvwxyz"

char_lower(c) ==
    LET k == str_find(UPPER, c, 1)
    IN  IF k = 0 THEN c ELSE CharAt(LOWER, k)

RECURSIVE str_lower(_)
str_lower(s) ==
    IF Len(s) = 0 THEN ""
    ELSE char_lower(CharAt(s, 1)) \o str_lower(SubSeq(s, 2, Len(s)))

\* str(b) of a bool
str_of_bool(b) == IF b THEN "True" ELSE "False"

DIGITS == "0123456789"

\* str(n) of an int n >= 0
RECURSIVE str_of_int(_)
str_of_int(n) ==
    IF n < 10 THEN CharAt(DIGITS, n + 1)
    ELSE str_of_int(n \div 10) \o CharAt(DIGITS, (n % 10) + 1)

\* int(s) of a string of decimal digits
RECURSIVE int_of_str(_)
int_of_str(s) ==
    IF Len(s) = 0 THEN 0
    ELSE 10 * int_of_str(SubSeq(s, 1, Len(s) - 1))
         + (str_find(DIGITS, CharAt(s, Len(s)), 1) - 1)

(***************************************************************************)
(* packaging.version.Version of a release string "N(.N)*" and its order:   *)
(* the release segments are compared as integers, the shorter release      *)
(* padded with zeros.                                                      *)
(***************************************************************************)
Version(s) ==
    LET parts == str_split(s, ".")
    IN  [i \in 1..Len(parts) |-> int_of_str(parts[i])]

Segment(r, i) == IF i <= Len(r) THEN r[i] ELSE 0

RECURSIVE release_ge(_, _, _)
release_ge(a, b, i) ==
    IF i > Len(a) /\ i > Len(b) THEN TRUE
    ELSE IF Segment(a, i) > Segment(b, i) THEN TRUE
    ELSE IF Segment(a, i) < Segment(b, i) THEN FALSE
    ELSE release_ge(a, b, i + 1)

\* a < b, b a prefix of a, or a = b: the order of the strings themselves
RECURSIVE str_ge(_, _, _)
str_ge(a, b, i) ==
    IF i > Len(b) THEN TRUE
    ELSE IF i > Len(a) THEN FALSE
    ELSE LET x == str_find(".0123456789", CharAt(a, i), 1)
             y == str_find(".0123456789", CharAt(b, i), 1)
         IN  IF x # y THEN x > y ELSE str_ge(a, b, i + 1)

\* variant: the versions compared as strings
meets_conditional_version_lexical(version, min_version) ==
    str_ge(version, min_version, 1)

meets_conditional_version(version, min_version) ==
    release_ge(Version(version), Version(min_version), 1)

(***************************************************************************)
(* parse_labels                                                            *)
(***************************************************************************)
CATEGORIES == {"platform", "python", "build", "arch", "libc", "directives"}

\* variant: "ci" is not an alias of "directives"
parse_label_no_alias(result, raw) ==
    LET label == str_strip(raw)
    IN  IF label \in CI_EXTRA_SKIP_LABELS
        THEN [result EXCEPT !["directives"] = @ \cup {"skip"}]
        ELSE IF label = "" \/ ~str_contains(label, ":")
        THEN result
        ELSE LET kv == str_split1(label, ":")
             IN  IF kv[1] \in DOMAIN result
                 THEN [result EXCEPT ![kv[1]] = @ \cup {kv[2]}]
                 ELSE result

\* one iteration of `for label in labels.split(",")`
parse_label(result, raw) ==
    LET label == str_strip(raw)
    IN  IF label \in CI_EXTRA_SKIP_LABELS
        THEN [result EXCEPT !["directives"] = @ \cup {"skip"}]
        ELSE IF label = "" \/ ~str_contains(label, ":")
        THEN result
        ELSE LET kv       == str_split1(label, ":")
                 category == IF kv[1] = "ci" THEN "directives" ELSE kv[1]
             IN  IF category \in DOMAIN result
                 THEN [result EXCEPT ![category] = @ \cup {kv[2]}]
                 ELSE result

RECURSIVE parse_label_loop(_, _, _)
parse_label_loop(result, tokens, i) ==
    IF i > Len(tokens) THEN result
    ELSE parse_label_loop(parse_label(result, tokens[i]), tokens, i + 1)

\* labels_arg is args.labels: None or <<string>>
parse_labels(labels_arg) ==
    IF labels_arg = None \/ labels_arg[1] = ""
    THEN <<>>
    ELSE parse_label_loop([c \in CATEGORIES |-> {}], str_split(labels_arg[1], ","), 1)

\* filters.get(category), as a truth value and as a set
dict_get_set(filters, category) ==
    IF category \in DOMAIN filters THEN filters[category] ELSE {}

(***************************************************************************)
(* should_include_entry                                                    *)
(***************************************************************************)
\* the checks of should_include_entry after the skip directive
include_by_categories(entry, filters, libc_optional) ==
    IF dict_get_set(filters, "platform") # {}
       /\ entry["platform"] \notin filters["platform"]
    THEN FALSE
    ELSE IF dict_get_set(filters, "python") # {}
            /\ entry["python"] \notin filters["python"]
    THEN FALSE
    ELSE IF dict_get_set(filters, "arch") # {}
            /\ entry["arch"] \notin filters["arch"]
    THEN FALSE
    ELSE IF /\ dict_get_set(filters, "libc") # {}
            /\ IF "libc" \in DOMAIN entry /\ entry["libc"] # ""
               THEN entry["libc"] \notin filters["libc"]
               ELSE ~libc_optional
    THEN FALSE
    ELSE IF dict_get_set(filters, "build") # {}
    THEN LET parts == str_split(IF "build_options" \in DOMAIN entry
                                THEN entry["build_options"] ELSE "", "+")
             build_options == {parts[k] : k \in 1..Len(parts)}
         IN  \A f \in filters["build"] : f \in build_options
    ELSE TRUE

\* variant: the skip directive is not looked at
should_include_entry_no_skip(entry, filters) ==
    include_by_categories(entry, filters, TRUE)

\* variant: a libc filter drops the entries that have no libc
should_include_entry_libc_strict(entry, filters) ==
    IF dict_get_set(filters, "directives") # {} /\ "skip" \in filters["directives"]
    THEN FALSE
    ELSE include_by_categories(entry, filters, FALSE)

should_include_entry(entry, filters) ==
    IF dict_get_set(filters, "directives") # {} /\ "skip" \in filters["directives"]
    THEN FALSE
    ELSE IF dict_get_set(filters, "platform") # {}
            /\ entry["platform"] \notin filters["platform"]
    THEN FALSE
    ELSE IF dict_get_set(filters, "python") # {}
            /\ entry["python"] \notin filters["python"]
    THEN FALSE
    ELSE IF dict_get_set(filters, "arch") # {}
            /\ entry["arch"] \notin filters["arch"]
    THEN FALSE
    ELSE IF /\ dict_get_set(filters, "libc") # {}
            /\ "libc" \in DOMAIN entry /\ entry["libc"] # ""
            /\ entry["libc"] \notin filters["libc"]
    THEN FALSE
    ELSE IF dict_get_set(filters, "build") # {}
    THEN LET parts == str_split(IF "build_options" \in DOMAIN entry
                                THEN entry["build_options"] ELSE "", "+")
             build_options == {parts[k] : k \in 1..Len(parts)}
         IN  \A f \in filters["build"] : f \in build_options
    ELSE TRUE

(***************************************************************************)
(* find_runner: the registry is iterated in its order.  The result is      *)
(* <<name>>, or None when the function raises RuntimeError.                *)
(***************************************************************************)
\* variant: the first runner of the platform, whatever its arch
find_runner_platform_first(registry, platform, arch) ==
    LET match_platform ==
            SelectSeq(registry, LAMBDA r : r.value["platform"] = platform)
    IN  IF match_platform # <<>> THEN Some(match_platform[1].key) ELSE None

find_runner(registry, platform, arch) ==
    LET match_platform ==
            SelectSeq(registry, LAMBDA r : r.value["platform"] = platform)
        match_arch ==
            SelectSeq(match_platform, LAMBDA r : r.value["arch"] = arch)
    IN  IF match_arch # <<>> THEN Some(match_arch[1].key)
        ELSE IF match_platform # <<>> THEN Some(match_platform[1].key)
        ELSE None

\* runners[runner]
runner_config(registry, runner) ==
    (CHOOSE r \in {registry[k] : k \in 1..Len(registry)} : r.key = runner).value

(***************************************************************************)
(* add_matrix_entries_for_config                                           *)
(***************************************************************************)
\* variant: the boolean is stringified and not lowercased
run_field_not_lowered(target_config, registry, runner, arch) ==
    str_of_bool(IF "run" \in DOMAIN target_config
                THEN target_config["run"]
                ELSE runner_config(registry, runner)["arch"] = arch)

\* the `run` field: str(config.get("run", runners[runner]["arch"] == arch)).lower()
run_field(target_config, registry, runner, arch) ==
    str_lower(str_of_bool(IF "run" \in DOMAIN target_config
                          THEN target_config["run"]
                          ELSE runner_config(registry, runner)["arch"] = arch))

copy_optional(base, target_config, key) ==
    IF key \in DOMAIN target_config THEN (key :> target_config[key]) @@ base ELSE base

base_entry(target_triple, target_config, platform, registry, runner, directives) ==
    LET arch == target_config["arch"]
        required == [arch |-> arch,
                     target_triple |-> target_triple,
                     platform |-> platform,
                     runner |-> runner,
                     run |-> run_field(target_config, registry, runner, arch)]
        optional == copy_optional(copy_optional(copy_optional(required,
                        target_config, "arch_variant"), target_config, "libc"),
                        target_config, "vcvars")
    IN  IF "dry-run" \in directives THEN ("dry-run" :> "true") @@ optional
        ELSE optional

\* entry = base_entry.copy(); entry.update({"python": ..., "build_options": ...})
make_entry(base, python_version, build_option) ==
    [python |-> python_version, build_options |-> build_option] @@ base

\* `for build_option in options: ... matrix_entries.append(entry)` from index j
RECURSIVE option_loop(_, _, _, _, _)
option_loop(acc, base, python_version, options, j) ==
    IF j > Len(options) THEN acc
    ELSE option_loop(Append(acc, make_entry(base, python_version, options[j])),
                     base, python_version, options, j + 1)

\* the regular loop `for python_version in python_versions` from index i
RECURSIVE regular_loop(_, _, _, _, _)
regular_loop(acc, base, python_versions, build_options, i) ==
    IF i > Len(python_versions) THEN acc
    ELSE regular_loop(option_loop(acc, base, python_versions[i], build_options, 1),
                      base, python_versions, build_options, i + 1)

\* the loop over python_versions of one conditional block, from index i
RECURSIVE conditional_version_loop(_, _, _, _, _)
conditional_version_loop(acc, base, python_versions, conditional, i) ==
    IF i > Len(python_versions) THEN acc
    ELSE IF ~meets_conditional_version(python_versions[i],
                                       conditional["minimum-python-version"])
    THEN conditional_version_loop(acc, base, python_versions, conditional, i + 1)
    ELSE conditional_version_loop(
             option_loop(acc, base, python_versions[i], conditional["options"], 1),
             base, python_versions, conditional, i + 1)

\* `for conditional in config.get("build_options_conditional", [])` from index b
RECURSIVE conditional_loop(_, _, _, _, _)
conditional_loop(acc, base, python_versions, conditionals, b) ==
    IF b > Len(conditionals) THEN acc
    ELSE conditional_loop(
             conditional_version_loop(acc, base, python_versions, conditionals[b], 1),
             base, python_versions, conditionals, b + 1)

conditionals_of(target_config) ==
    IF "build_options_conditional" \in DOMAIN target_config
    THEN target_config["build_options_conditional"]
    ELSE <<>>

\* variant: the conditional blocks are expanded before the regular options
add_matrix_entries_for_config_conditional_first(acc, target_triple, target_config, platform, registry, runner, directives) ==
    LET base == base_entry(target_triple, target_config, platform, registry,
                           runner, directives)
        conditional == conditional_loop(acc, base, target_config["python_versions"],
                                        conditionals_of(target_config), 1)
    IN  regular_loop(conditional, base, target_config["python_versions"],
                     target_config["build_options"], 1)

\* the list after the call, given the runner that find_runner returned
add_matrix_entries_for_config(acc, target_triple, target_config, platform, registry, runner, directives) ==
    LET base == base_entry(target_triple, target_config, platform, registry,
                           runner, directives)
        regular == regular_loop(acc, base, target_config["python_versions"],
                                target_config["build_options"], 1)
    IN  conditional_loop(regular, base, target_config["python_versions"],
                         conditionals_of(target_config), 1)

(***************************************************************************)
(* The sharder of main (lines 264-286).                                    *)
(***************************************************************************)
Min(a, b) == IF a < b THEN a ELSE b

\* the Python slice s[a:b] for 0 <= a <= b
py_slice(s, a, b) ==
    IF a >= Len(s) THEN <<>> ELSE SubSeq(s, a + 1, Min(b, Len(s)))

\* variant: the number of shards the entries fill, rounded up
required_shards_ceil(n) == (n + CI_MATRIX_SIZE_LIMIT - 1) \div CI_MATRIX_SIZE_LIMIT

\* variant: the number of full shards
required_shards_floor(n) == n \div CI_MATRIX_SIZE_LIMIT

\* shards = (len(entries) // CI_MATRIX_SIZE_LIMIT) + 1
required_shards(n) == (n \div CI_MATRIX_SIZE_LIMIT) + 1

\* variant: the slice ends one entry early
shard_entries_short(all_entries, i) ==
    py_slice(all_entries, i * CI_MATRIX_SIZE_LIMIT, (i + 1) * CI_MATRIX_SIZE_LIMIT - 1)

\* entries[shard * CI_MATRIX_SIZE_LIMIT : (shard + 1) * CI_MATRIX_SIZE_LIMIT]
shard_entries(all_entries, i) ==
    py_slice(all_entries, i * CI_MATRIX_SIZE_LIMIT, (i + 1) * CI_MATRIX_SIZE_LIMIT)

(***************************************************************************)
(* Inputs: the two configuration documents and the command line.           *)
(***************************************************************************)
Item(k, v) == [key |-> k, value |-> v]

Conditional(min_version, options) ==
    ("minimum-python-version" :> min_version) @@ ("options" :> options)

TargetLinuxX64 ==
    [python_versions |-> <<"3.9", "3.10", "3.13">>,
     build_options |-> <<"debug", "pgo+lto">>,
     build_options_conditional |->
        <<Conditional("3.10", <<"freethreaded+debug">>),
          Conditional("3.13", <<"freethreaded+pgo+lto", "debug+asan">>)>>,
     arch |-> "x86_64",
     arch_variant |-> "v2",
     libc |-> "gnu"]

TargetLinuxArm ==
    [python_versions |-> <<"3.10", "3.9">>,
     build_options |-> <<"debug">>,
     build_options_conditional |-> <<Conditional("3.9.1", <<"lto">>)>>,
     arch |-> "aarch64",
     libc |-> "musl"]

TargetLinuxCross ==
    [python_versions |-> <<"3.13">>,
     build_options |-> <<"debug", "noopt">>,
     arch |-> "riscv64",
     libc |-> "gnu",
     run |-> TRUE]

TargetDarwin ==
    [python_versions |-> <<"3.13", "3.9">>,
     build_options |-> <<"debug", "pgo">>,
     build_options_conditional |->
        <<Conditional("3.10.0", <<"freethreaded+debug">>)>>,
     arch |-> "aarch64"]

TargetWindows ==
    [python_versions |-> <<"3.10">>,
     build_options |-> <<"pgo">>,
     arch |-> "x86_64",
     vcvars |-> "vcvars64.bat",
     run |-> FALSE]

ConfigA ==
    <<Item("linux", <<Item("x86_64-unknown-linux-gnu", TargetLinuxX64),
                      Item("aarch64-unknown-linux-musl", TargetLinuxArm)>>),
      Item("darwin", <<Item("aarch64-apple-darwin", TargetDarwin)>>)>>

ConfigB ==
    <<Item("darwin", <<Item("aarch64-apple-darwin", TargetDarwin)>>),
      Item("windows", <<Item("x86_64-pc-windows-msvc", TargetWindows)>>),
      Item("linux", <<Item("riscv64-unknown-linux-gnu", TargetLinuxCross),
                      Item("aarch64-unknown-linux-musl", TargetLinuxArm)>>)>>

ConfigC ==
    <<Item("windows", <<>>),
      Item("linux", <<Item("riscv64-unknown-linux-gnu", TargetLinuxCross)>>)>>

Configs == {ConfigA, ConfigB, ConfigC}

RunnersA ==
    <<Item("depot-linux-x64", [platform |-> "linux", arch |-> "x86_64"]),
      Item("ubuntu-latest", [platform |-> "linux", arch |-> "x86_64", free |-> TRUE]),
      Item("depot-linux-arm", [platform |-> "linux", arch |-> "aarch64", free |-> FALSE]),
      Item("macos-latest", [platform |-> "darwin", arch |-> "aarch64", free |-> TRUE]),
      Item("windows-latest", [platform |-> "windows", arch |-> "x86_64", free |-> TRUE])>>

RunnersB ==
    <<Item("macos-intel", [platform |-> "darwin", arch |-> "x86_64", free |-> FALSE]),
      Item("linux-arm", [platform |-> "linux", arch |-> "aarch64", free |-> TRUE]),
      Item("linux-x64", [platform |-> "linux", arch |-> "x86_64", free |-> TRUE]),
      Item("macos-arm", [platform |-> "darwin", arch |-> "aarch64", free |-> FALSE])>>

Registries == {RunnersA, RunnersB}

\* --platform: absent or one of the choices of parse_args
PlatformArgs == {None, Some("darwin"), Some("linux"), Some("windows")}

\* the label tokens the pipeline is run with
LabelPool ==
    <<"documentation", " ci:skip", "directives:skip", "ci:dry-run",
      "platform:linux", "python:3.10", "arch:aarch64", "libc:musl",
      "build:debug", "build:freethreaded ">>

\* the most label tokens in --labels
MaxLabels == 2

\* "t1,t2,...": the tokens joined by commas
RECURSIVE join(_)
join(tokens) ==
    IF Len(tokens) = 0 THEN ""
    ELSE IF Len(tokens) = 1 THEN tokens[1]
    ELSE tokens[1] \o "," \o join(Tail(tokens))

\* the increasing index sequences of length k over 1..n, starting above lo
RECURSIVE choices(_, _, _)
choices(lo, n, k) ==
    IF k = 0 THEN {<<>>}
    ELSE UNION {{<<i>> \o c : c \in choices(i, n, k - 1)} : i \in (lo + 1)..n}

\* --labels: absent, empty, or up to MaxLabels tokens of the pool
LabelArgs ==
    {None, Some("")} \cup
    UNION {{Some(join([j \in 1..k |-> LabelPool[c[j]]])) :
                c \in choices(0, Len(LabelPool), k)} : k \in 1..MaxLabels}

\* --max-shards in the pipeline runs: disabled, or one shard
PipelineShardArgs == {0, 1}

Args(platform, max_shards, labels_arg, free) ==
    [platform |-> platform, max_shards |-> max_shards,
     labels |-> labels_arg, free_runners |-> free]

Init ==
    /\ pc = "parse_labels"
    /\ args \in {Args(p, m, l, f) : p \in PlatformArgs, m \in PipelineShardArgs,
                                   l \in LabelArgs, f \in BOOLEAN}
    /\ config \in Configs
    /\ runners \in Registries
    /\ labels = <<>>
    /\ pi = 1
    /\ ti = 1
    /\ matrix_entries = <<>>
    /\ entries = <<>>
    /\ shard = 0
    /\ matrix = <<>>
    /\ stdout = None
    /\ stderr = <<>>
    /\ exit_code = None

(***************************************************************************)
(* main, one action per statement or loop iteration.                       *)
(***************************************************************************)
\* labels = parse_labels(args.labels)
ParseLabels ==
    /\ pc = "parse_labels"
    /\ labels' = parse_labels(args.labels)
    /\ pc' = "load"
    /\ UNCHANGED <<args, config, runners, pi, ti, matrix_entries, entries,
                   shard, matrix, stdout, stderr, exit_code>>

\* runner_config.get("free")
is_free(runner_cfg) == "free" \in DOMAIN runner_cfg /\ runner_cfg["free"]

\* the two documents are loaded; --free-runners keeps the free runners
LoadDocuments ==
    /\ pc = "load"
    /\ runners' = IF args.free_runners
                  THEN SelectSeq(runners, LAMBDA r : is_free(r.value))
                  ELSE runners
    /\ pc' = "generate"
    /\ UNCHANGED <<args, config, labels, pi, ti, matrix_entries, entries,
                   shard, matrix, stdout, stderr, exit_code>>

\* `if platform_filter and platform != platform_filter: continue`
platform_skipped(platform) ==
    args.platform # None /\ args.platform[1] # "" /\ platform # args.platform[1]

\* the platform loop moves on: the platform is filtered out or its targets are done
NextPlatform ==
    /\ pc = "generate"
    /\ pi <= Len(config)
    /\ \/ platform_skipped(config[pi].key)
       \/ ti > Len(config[pi].value)
    /\ pi' = pi + 1
    /\ ti' = 1
    /\ UNCHANGED <<pc, args, config, runners, labels, matrix_entries, entries,
                   shard, matrix, stdout, stderr, exit_code>>

\* one call of add_matrix_entries_for_config that returns
AddMatrixEntries ==
    /\ pc = "generate"
    /\ pi <= Len(config)
    /\ ~platform_skipped(config[pi].key)
    /\ ti <= Len(config[pi].value)
    /\ LET platform == config[pi].key
           target   == config[pi].value[ti]
           found    == find_runner(runners, platform, target.value["arch"])
       IN  /\ found # None
           /\ matrix_entries' =
                add_matrix_entries_for_config(matrix_entries, target.key,
                    target.value, platform, runners, found[1],
                    dict_get_set(labels, "directives"))
    /\ ti' = ti + 1
    /\ UNCHANGED <<pc, args, config, runners, labels, pi, entries,
                   shard, matrix, stdout, stderr, exit_code>>

\* one call of add_matrix_entries_for_config in which find_runner raises
RunnerNotFound ==
    /\ pc = "generate"
    /\ pi <= Len(config)
    /\ ~platform_skipped(config[pi].key)
    /\ ti <= Len(config[pi].value)
    /\ find_runner(runners, config[pi].key, config[pi].value[ti].value["arch"]) = None
    /\ pc' = "crashed"
    /\ stderr' = Append(stderr, "RuntimeError")
    /\ exit_code' = Some(1)
    /\ UNCHANGED <<args, config, runners, labels, pi, ti, matrix_entries, entries,
                   shard, matrix, stdout>>

\* the end of generate_matrix_entries: the label filters, and the return
ApplyLabelFilters ==
    /\ pc = "generate"
    /\ pi > Len(config)
    /\ entries' = IF DOMAIN labels # {}
                  THEN SelectSeq(matrix_entries,
                                 LAMBDA e : should_include_entry(e, labels))
                  ELSE matrix_entries
    /\ pc' = "shard"
    /\ UNCHANGED <<args, config, runners, labels, pi, ti, matrix_entries,
                   shard, matrix, stdout, stderr, exit_code>>

\* `if args.max_shards:` up to the shard loop, and the unsharded branch
CheckShards ==
    /\ pc = "shard"
    /\ IF args.max_shards # 0
       THEN IF required_shards(Len(entries)) > args.max_shards
            THEN /\ stderr' = Append(stderr, "error")
                 /\ exit_code' = Some(1)
                 /\ pc' = "exited"
                 /\ matrix' = <<>>
            ELSE /\ pc' = "shard_loop"
                 /\ matrix' = <<>>
                 /\ UNCHANGED <<stderr, exit_code>>
       ELSE /\ stderr' = IF Len(entries) > CI_MATRIX_SIZE_LIMIT
                         THEN Append(stderr, "warning") ELSE stderr
            /\ matrix' = [include |-> entries]
            /\ pc' = "print"
            /\ UNCHANGED exit_code
    /\ shard' = 0
    /\ UNCHANGED <<args, config, runners, labels, pi, ti, matrix_entries, entries,
                   stdout>>

\* one iteration of `for shard in range(args.max_shards)`
ShardStep ==
    /\ pc = "shard_loop"
    /\ shard < args.max_shards
    /\ matrix' = (str_of_int(shard) :> [include |-> shard_entries(entries, shard)])
                 @@ matrix
    /\ shard' = shard + 1
    /\ UNCHANGED <<pc, args, config, runners, labels, pi, ti, matrix_entries,
                   entries, stdout, stderr, exit_code>>

\* print(json.dumps(matrix)), and the process ends
PrintMatrix ==
    /\ \/ pc = "print"
       \/ pc = "shard_loop" /\ shard >= args.max_shards
    /\ stdout' = Some(matrix)
    /\ exit_code' = Some(0)
    /\ pc' = "done"
    /\ UNCHANGED <<args, config, runners, labels, pi, ti, matrix_entries, entries,
                   shard, matrix, stderr>>

Next ==
    \/ ParseLabels
    \/ LoadDocuments
    \/ NextPlatform
    \/ AddMatrixEntries
    \/ RunnerNotFound
    \/ ApplyLabelFilters
    \/ CheckShards
    \/ ShardStep
    \/ PrintMatrix

Spec == Init /\ [][Next]_vars

(***************************************************************************)
(* parse_labels on its own, over every token sequence of a wider pool.     *)
(***************************************************************************)
ParsePool ==
    <<"documentation", " documentation ", "ci:skip", "directives:dry-run",
      "platform:linux", "\tpython:3.10 ", "build:pgo:lto", "os:linux",
      "skip", "", "libc:", "arch :x64">>

\* the most tokens of a label string given to parse_labels alone
MaxTokens == 2

RECURSIVE token_seqs(_)
token_seqs(k) ==
    IF k = 0 THEN {<<>>}
    ELSE {Append(q, t) : q \in token_seqs(k - 1), t \in 1..Len(ParsePool)}

ParseLabelArgs ==
    {None} \cup
    UNION {{Some(join([j \in 1..k |-> ParsePool[q[j]]])) : q \in token_seqs(k)} :
               k \in 1..MaxTokens}

InitLabels ==
    /\ pc = "parse_labels"
    /\ args \in {Args(None, 0, l, FALSE) : l \in ParseLabelArgs}
    /\ config = <<>>
    /\ runners = <<>>
    /\ labels = <<>>
    /\ pi = 1
    /\ ti = 1
    /\ matrix_entries = <<>>
    /\ entries = <<>>
    /\ shard = 0
    /\ matrix = <<>>
    /\ stdout = None
    /\ stderr = <<>>
    /\ exit_code = None

NextLabels == ParseLabels

SpecLabels == InitLabels /\ [][NextLabels]_vars

(***************************************************************************)
(* The sharder on its own, over entry lists long enough to fill shards.    *)
(* It only slices the list, so an entry is identified by its position in   *)
(* the filtered sequence.                                                  *)
(***************************************************************************)
\* the longest filtered entry sequence given to the sharder
MaxEntries == 530

\* the largest --max-shards given to the sharder
MaxShards == 3

ShardArgs == (-1)..MaxShards

InitShard ==
    /\ pc = "shard"
    /\ args \in {Args(None, m, None, FALSE) : m \in ShardArgs}
    /\ entries \in {[k \in 1..n |-> k] : n \in 0..MaxEntries}
    /\ config = <<>>
    /\ runners = <<>>
    /\ labels = <<>>
    /\ pi = 1
    /\ ti = 1
    /\ matrix_entries = entries
    /\ shard = 0
    /\ matrix = <<>>
    /\ stdout = None
    /\ stderr = <<>>
    /\ exit_code = None

NextShard ==
    \/ CheckShards
    \/ ShardStep
    \/ PrintMatrix

SpecShard == InitShard /\ [][NextShard]_vars

(***************************************************************************)
(* Properties.  They state what the specification says in terms of sets    *)
(* and positions, independently of the loops above.                        *)
(***************************************************************************)
SetMin(S) == CHOOSE x \in S : \A y \in S : x <= y
SetMax(S) == CHOOSE x \in S : \A y \in S : x >= y

\* the maximal sep-free stretches s[i..j] of s, as index pairs: one starts at
\* the beginning and after every sep, and ends before the next sep or at the end
Segments(s, sep) ==
    LET seps   == {k \in 1..Len(s) : CharAt(s, k) = sep}
        starts == {1} \cup {k + 1 : k \in seps}
    IN  {<<i, SetMin({j \in (i - 1)..Len(s) : j = Len(s) \/ (j + 1) \in seps})>> :
            i \in starts}

\* s[i..j] without its leading and trailing whitespace
Trimmed(s, i, j) ==
    LET solid == {k \in i..j : CharAt(s, k) \notin WHITESPACE}
    IN  IF solid = {} THEN "" ELSE SubSeq(s, SetMin(solid), SetMax(solid))

\* the whitespace-trimmed tokens of a comma-separated string
TrimmedTokens(s) == {Trimmed(s, p[1], p[2]) : p \in Segments(s, ",")}

\* the sep-separated tokens of a string
TokensOf(s, sep) == {SubSeq(s, p[1], p[2]) : p \in Segments(s, sep)}

Suffixes(s) == {SubSeq(s, k, Len(s)) : k \in 1..(Len(s) + 1)}

\* token t puts value v in category c
Contributes(t, c, v) ==
    \/ t = c \o ":" \o v
    \/ c = "directives" /\ t = "ci:" \o v
    \/ c = "directives" /\ v = "skip" /\ t = "documentation"

LabelsGiven == args.labels # None /\ args.labels[1] # ""

Parsed == pc # "parse_labels"

\* C9: parse_labels of a non-empty string yields exactly the six categories,
\* and v is in category c exactly when some trimmed token is "c:v", or c is
\* directives and the token is "ci:v", or the token is the skip label
\* "documentation" and v is skip; an empty or absent string yields the empty
\* mapping.
C9_LabelParsing ==
    Parsed =>
        IF LabelsGiven
        THEN LET tokens == TrimmedTokens(args.labels[1])
                 values == {"skip"} \cup UNION {Suffixes(t) : t \in tokens}
             IN  /\ DOMAIN labels =
                        {"platform", "python", "build", "arch", "libc", "directives"}
                 /\ \A c \in DOMAIN labels :
                        labels[c] = {v \in values :
                                        \E t \in tokens : Contributes(t, c, v)}
        ELSE DOMAIN labels = {}

\* a parsed string with an alias token, an unknown category, a token without
\* a colon and padding
C9_Witness ==
    /\ Parsed
    /\ LabelsGiven
    /\ "ci:skip" \in TrimmedTokens(args.labels[1])
    /\ TrimmedTokens(args.labels[1]) \cap {"os:linux", "skip", "python:3.10"} # {}
    /\ "skip" \in labels["directives"]

SkipTokens == {"documentation", "ci:skip", "directives:skip"}

SkipRequested == LabelsGiven /\ TrimmedTokens(args.labels[1]) \cap SkipTokens # {}

Generated == pc \in {"shard", "shard_loop", "print", "done", "exited"}

\* C5: when the label string holds the token documentation, ci:skip or
\* directives:skip, the parsed directives contain skip and the filtered entry
\* sequence is empty, whatever the other labels, the platform restriction and
\* the configuration are.
C5_SkipIsAbsolute ==
    SkipRequested =>
        /\ Parsed => "skip" \in labels["directives"]
        /\ Generated => entries = <<>>
        /\ pc = "done" /\ args.max_shards = 0 => stdout = Some([include |-> <<>>])

\* a skipped run that expanded entries, with another label and a platform
C5_Witness ==
    /\ SkipRequested
    /\ pc = "done"
    /\ matrix_entries # <<>>
    /\ labels["python"] # {}
    /\ args.platform # None
    /\ entries = <<>>

\* the positions of seq that satisfy Keep
Kept(seq, Keep(_)) == {i \in 1..Len(seq) : Keep(seq[i])}

\* sub is seq restricted to the positions in K, in the order of seq
IsRestriction(sub, seq, K) ==
    /\ Len(sub) = Cardinality(K)
    /\ \A i \in K : sub[Cardinality({j \in K : j <= i})] = seq[i]

\* the entry filter as the specification states it
Category(c) == IF c \in DOMAIN labels THEN labels[c] ELSE {}

KeepBySpec(e) ==
    /\ Category("platform") = {} \/ e["platform"] \in Category("platform")
    /\ Category("python") = {} \/ e["python"] \in Category("python")
    /\ Category("arch") = {} \/ e["arch"] \in Category("arch")
    /\ \/ Category("libc") = {}
       \/ "libc" \notin DOMAIN e
       \/ e["libc"] \in Category("libc")
    /\ \/ Category("build") = {}
       \/ Category("build") \subseteq TokensOf(e["build_options"], "+")

\* C4: without a skip directive the filter keeps an entry iff every category
\* set is empty or matches it: platform, python and arch by membership, libc
\* by membership unless the entry has no libc, build by every value being
\* one of the "+"-separated tokens of the entry's build_options.
C4_EntryFilter ==
    Generated /\ "skip" \notin Category("directives") =>
        IsRestriction(entries, matrix_entries, Kept(matrix_entries, KeepBySpec))

\* a filtered run where a libc filter met an entry without libc and a build
\* filter met an entry with extra tokens, some entries kept and some dropped
C4_Witness ==
    /\ pc = "done"
    /\ "skip" \notin Category("directives")
    /\ Category("libc") # {}
    /\ Category("build") # {}
    /\ \E i \in 1..Len(entries) :
            /\ "libc" \notin DOMAIN entries[i]
            /\ entries[i]["build_options"] \notin Category("build")
    /\ Len(entries) < Len(matrix_entries)

(***************************************************************************)
(* The expansion, by coordinates: an entry comes from a platform p, a      *)
(* target t of it, the regular options (phase 0) or conditional block b    *)
(* (phase 1), a python version v and an option o.                          *)
(***************************************************************************)
\* release-version order, as a table of the releases the documents name
Release ==
    ("3.9" :> <<3, 9, 0>>) @@ ("3.9.1" :> <<3, 9, 1>>) @@ ("3.10" :> <<3, 10, 0>>)
    @@ ("3.10.0" :> <<3, 10, 0>>) @@ ("3.13" :> <<3, 13, 0>>)

AtLeast(version, minimum) ==
    LET a == Release[version]
        b == Release[minimum]
    IN  \/ a[1] > b[1]
        \/ a[1] = b[1] /\ a[2] > b[2]
        \/ a[1] = b[1] /\ a[2] = b[2] /\ a[3] >= b[3]

PlatformExpanded(p) ==
    args.platform = None \/ config[p].key = args.platform[1]

TargetAt(p, t) == config[p].value[t].value

Blocks(target) ==
    IF "build_options_conditional" \in DOMAIN target
    THEN target["build_options_conditional"] ELSE <<>>

\* the python versions of a target that meet the minimum of a block, as positions
Qualifying(target, block) ==
    {v \in 1..Len(target["python_versions"]) :
        AtLeast(target["python_versions"][v], block["minimum-python-version"])}

\* the (platform, target) pairs whose expansion has completed
Expanded ==
    {q \in UNION {{<<p, t>> : t \in 1..Len(config[p].value)} : p \in 1..Len(config)} :
        /\ PlatformExpanded(q[1])
        /\ q[1] < pi \/ (q[1] = pi /\ q[2] < ti)}

RegularCoords(p, t) ==
    {<<p, t, 0, 0, v, o>> : v \in 1..Len(TargetAt(p, t)["python_versions"]),
                            o \in 1..Len(TargetAt(p, t)["build_options"])}

ConditionalCoords(p, t) ==
    UNION {{<<p, t, 1, b, v, o>> :
                v \in Qualifying(TargetAt(p, t), Blocks(TargetAt(p, t))[b]),
                o \in 1..Len(Blocks(TargetAt(p, t))[b]["options"])} :
           b \in 1..Len(Blocks(TargetAt(p, t)))}

Coords == UNION {RegularCoords(q[1], q[2]) \cup ConditionalCoords(q[1], q[2]) :
                     q \in Expanded}

RECURSIVE LexLess(_, _, _)
LexLess(c, d, k) ==
    IF k > Len(c) THEN FALSE
    ELSE c[k] < d[k] \/ (c[k] = d[k] /\ LexLess(c, d, k + 1))

\* the position in the expanded sequence that the ordering gives a coordinate
Position(c) == Cardinality({d \in Coords : LexLess(d, c, 1)}) + 1

OptionAt(c) ==
    IF c[3] = 0 THEN TargetAt(c[1], c[2])["build_options"][c[6]]
    ELSE Blocks(TargetAt(c[1], c[2]))[c[4]]["options"][c[6]]

\* sub[i..] can be read off seq[j..] from left to right, skipping elements
RECURSIVE IsSubsequence(_, _, _, _)
IsSubsequence(sub, seq, i, j) ==
    IF i > Len(sub) THEN TRUE
    ELSE IF j > Len(seq) THEN FALSE
    ELSE IF sub[i] = seq[j] THEN IsSubsequence(sub, seq, i + 1, j + 1)
    ELSE IsSubsequence(sub, seq, i, j + 1)

\* C3: the expanded sequence is ordered by platform, then target, then the
\* regular entries (outer python version, inner build option) before the
\* conditional ones, blocks in declared order, each block outer python
\* version and inner option; the label filter keeps the survivors in that
\* relative order.
C3_ExpansionOrder ==
    /\ Len(matrix_entries) = Cardinality(Coords)
    /\ \A c \in Coords :
        LET e == matrix_entries[Position(c)]
        IN  /\ e["platform"] = config[c[1]].key
            /\ e["target_triple"] = config[c[1]].value[c[2]].key
            /\ e["python"] = TargetAt(c[1], c[2])["python_versions"][c[5]]
            /\ e["build_options"] = OptionAt(c)
    /\ Generated => IsSubsequence(entries, matrix_entries, 1, 1)

\* a finished run over two platforms with regular and conditional entries,
\* part of them filtered away
C3_Witness ==
    /\ pc = "done"
    /\ \E c \in Coords, d \in Coords :
            c[1] # d[1] /\ c[3] = 1 /\ c[4] = 2 /\ d[3] = 1
    /\ Len(entries) > 1
    /\ Len(entries) < Len(matrix_entries)

\* the entries the specification gives the first b conditional blocks of a target
RECURSIVE ConditionalCount(_, _)
ConditionalCount(target, b) ==
    IF b = 0 THEN 0
    ELSE ConditionalCount(target, b - 1)
         + Cardinality(Qualifying(target, Blocks(target)[b]))
           * Len(Blocks(target)[b]["options"])

\* the entry count the specification gives a target
EntryCount(target) ==
    Len(target["python_versions"]) * Len(target["build_options"])
    + ConditionalCount(target, Len(Blocks(target)))

\* the entries of the unfiltered sequence that target (p, t) produced
EntriesOf(p, t) ==
    {i \in 1..Len(matrix_entries) :
        /\ matrix_entries[i]["platform"] = config[p].key
        /\ matrix_entries[i]["target_triple"] = config[p].value[t].key}

OptionsOf(seq) == {seq[k] : k \in 1..Len(seq)}

\* C2: before filtering, each expanded (platform, target) pair has
\* |python_versions| x |build_options| entries plus, per conditional block,
\* (python versions >= the block's minimum in release order) x |options|;
\* no conditional entry has a python version below its block's minimum.
C2_EntryCount ==
    \A q \in Expanded :
        LET target == TargetAt(q[1], q[2])
        IN  /\ Cardinality(EntriesOf(q[1], q[2])) = EntryCount(target)
            /\ Blocks(target) = <<>> =>
                    Cardinality(EntriesOf(q[1], q[2])) =
                        Len(target["python_versions"]) * Len(target["build_options"])
            /\ \A i \in EntriesOf(q[1], q[2]), b \in 1..Len(Blocks(target)) :
                    /\ matrix_entries[i]["build_options"]
                            \in OptionsOf(Blocks(target)[b]["options"])
                    /\ matrix_entries[i]["build_options"]
                            \notin OptionsOf(target["build_options"])
                    => AtLeast(matrix_entries[i]["python"],
                               Blocks(target)[b]["minimum-python-version"])

\* an expanded target with a block that 3.10 meets and 3.9 does not, and an
\* expanded target without blocks
C2_Witness ==
    /\ \E q \in Expanded :
        \E b \in 1..Len(Blocks(TargetAt(q[1], q[2]))) :
            LET target == TargetAt(q[1], q[2])
                met    == Qualifying(target, Blocks(target)[b])
            IN  /\ \E v \in met : target["python_versions"][v] = "3.10"
                /\ \E v \in 1..Len(target["python_versions"]) :
                        v \notin met /\ target["python_versions"][v] = "3.9"
    /\ \E q \in Expanded : Blocks(TargetAt(q[1], q[2])) = <<>>

(***************************************************************************)
(* Runner selection and the run field.                                     *)
(***************************************************************************)
PlatformRunners(platform) ==
    {k \in 1..Len(runners) : runners[k].value["platform"] = platform}

ExactRunners(platform, arch) ==
    {k \in PlatformRunners(platform) : runners[k].value["arch"] = arch}

RunnerNamed(name) == {k \in 1..Len(runners) : runners[k].key = name}

\* the (platform, target) pair the expansion is at
AtTarget ==
    /\ pi <= Len(config)
    /\ PlatformExpanded(pi)
    /\ ti <= Len(config[pi].value)

\* C1: find_runner returns the first runner of the registry with the target's
\* platform and arch if there is one, otherwise the first with its platform,
\* otherwise the expansion fails and no matrix is emitted; so an entry's
\* runner has the entry's platform, and its arch when the registry allows.
C1_RunnerSelection ==
    /\ \A i \in 1..Len(matrix_entries) :
        LET e     == matrix_entries[i]
            exact == ExactRunners(e["platform"], e["arch"])
            plat  == PlatformRunners(e["platform"])
        IN  /\ plat # {}
            /\ RunnerNamed(e["runner"]) =
                    {IF exact # {} THEN SetMin(exact) ELSE SetMin(plat)}
            /\ \A k \in RunnerNamed(e["runner"]) :
                    /\ runners[k].value["platform"] = e["platform"]
                    /\ exact # {} => runners[k].value["arch"] = e["arch"]
    /\ \A q \in Expanded : PlatformRunners(config[q[1]].key) # {}
    /\ pc = "crashed" =>
            /\ AtTarget
            /\ PlatformRunners(config[pi].key) = {}
            /\ stdout = None
            /\ exit_code = Some(1)
    /\ stdout # None => \A p \in 1..Len(config) :
            PlatformExpanded(p) /\ config[p].value # <<>>
                => PlatformRunners(config[p].key) # {}

\* entries whose runner is an exact match that is not the first runner of its
\* platform, and entries whose runner is the platform fallback
C1_Witness ==
    /\ pc = "done"
    /\ \E i \in 1..Len(matrix_entries) :
        LET e == matrix_entries[i]
        IN  /\ ExactRunners(e["platform"], e["arch"]) # {}
            /\ SetMin(ExactRunners(e["platform"], e["arch"]))
                    > SetMin(PlatformRunners(e["platform"]))
    /\ \E i \in 1..Len(matrix_entries) :
            ExactRunners(matrix_entries[i]["platform"], matrix_entries[i]["arch"]) = {}

\* C8: the run field of every entry the expander produces is the string
\* "true" or the string "false", with or without a run override.
C8_RunIsBooleanString ==
    /\ \A i \in 1..Len(matrix_entries) : matrix_entries[i]["run"] \in {"true", "false"}
    /\ Generated => \A i \in 1..Len(entries) : entries[i]["run"] \in {"true", "false"}

\* entries of a target with a run override and of one without, of both values
C8_Witness ==
    /\ pc = "done"
    /\ \E p \in 1..Len(config) : \E t \in 1..Len(config[p].value) :
            /\ "run" \in DOMAIN TargetAt(p, t)
            /\ EntriesOf(p, t) # {}
    /\ \E p \in 1..Len(config) : \E t \in 1..Len(config[p].value) :
            /\ "run" \notin DOMAIN TargetAt(p, t)
            /\ EntriesOf(p, t) # {}
    /\ \E i \in 1..Len(entries) : entries[i]["run"] = "true"
    /\ \E i \in 1..Len(entries) : entries[i]["run"] = "false"

(***************************************************************************)
(* The sharder.                                                            *)
(***************************************************************************)
\* the decimal strings of the shard indices
ShardKeys == <<"0", "1", "2", "3", "4", "5", "6", "7", "8", "9", "10", "11">>

ShardKey(i) == ShardKeys[i + 1]

Sharded == args.max_shards > 0

\* the number of entries of shard i when n entries are cut into runs of 256
ShardSize(n, i) ==
    IF n <= 256 * i THEN 0
    ELSE IF n - 256 * i > 256 THEN 256
    ELSE n - 256 * i

\* C6: a sharded run that fits emits exactly max_shards buckets keyed "0" to
\* str(max_shards - 1); bucket i is the slice entries[256*i .. 256*(i+1)-1] of
\* the filtered sequence, so 300 entries and max_shards 2 give 256 and 44.
C6_ShardBuckets ==
    Sharded /\ pc = "done" =>
        /\ stdout # None
        /\ DOMAIN stdout[1] = {ShardKey(i) : i \in 0..(args.max_shards - 1)}
        /\ Cardinality(DOMAIN stdout[1]) = args.max_shards
        /\ \A i \in 0..(args.max_shards - 1) :
            LET bucket == stdout[1][ShardKey(i)]
            IN  /\ DOMAIN bucket = {"include"}
                /\ Len(bucket["include"]) = ShardSize(Len(entries), i)
                /\ Len(bucket["include"]) <= 256
                /\ \A k \in 1..Len(bucket["include"]) :
                        bucket["include"][k] = entries[256 * i + k]
        /\ Len(entries) = 300 /\ args.max_shards = 2 =>
            /\ Len(stdout[1]["0"]["include"]) = 256
            /\ Len(stdout[1]["1"]["include"]) = 44

\* the run of 300 entries in two shards
C6_Witness ==
    /\ pc = "done"
    /\ args.max_shards = 2
    /\ Len(entries) = 300
    /\ Len(stdout[1]["1"]["include"]) = 44

\* C7: a sharded run of n entries ends in the fatal error (exit code 1, the
\* error on standard error, no matrix) iff (n // 256) + 1 > max_shards; so
\* n = 256 * max_shards is fatal.
C7_ShardLimitError ==
    Sharded /\ pc # "shard" =>
        /\ pc = "exited" <=> (Len(entries) \div 256) + 1 > args.max_shards
        /\ pc = "exited" =>
            /\ exit_code = Some(1)
            /\ stderr = <<"error">>
            /\ stdout = None
        /\ Len(entries) = 256 * args.max_shards => pc = "exited"
        /\ pc # "exited" => exit_code # Some(1) /\ stderr = <<>>

\* 256 entries with max_shards 1 ended in the fatal error
C7_Witness ==
    /\ pc = "exited"
    /\ args.max_shards = 1
    /\ Len(entries) = 256
    /\ exit_code = Some(1)

\* the include lists of shards "0" .. str(i - 1), concatenated in index order
RECURSIVE Concatenated(_, _)
Concatenated(m, i) ==
    IF i = 0 THEN <<>>
    ELSE Concatenated(m, i - 1) \o m[ShardKey(i - 1)]["include"]

\* C10: when a sharded run succeeds, the include lists of its shards in
\* index order concatenate to exactly the filtered entry sequence.
C10_ShardsPartition ==
    Sharded /\ pc = "done" =>
        Concatenated(stdout[1], args.max_shards) = entries

\* a successful run with a full shard, a partial shard and an empty shard
C10_Witness ==
    /\ pc = "done"
    /\ args.max_shards = 3
    /\ Len(entries) > 256
    /\ Len(entries) < 512
    /\ stdout[1]["2"]["include"] = <<>>

====
